---- MODULE Spec2Model ----
(***************************************************************************)
(* Orchestration core of the LinkedIn scraping coordinator: batch          *)
(* splitter, completion pollers, account selector / dispatcher of the HTTP *)
(* facade, its read-only endpoints and its handling of several requests,   *)
(* the semaphore-bounded batch pipelines, the batch script that reads the  *)
(* accounts and starts them, and the sequential batch script.              *)
(***************************************************************************)
EXTENDS Integers, Sequences, FiniteSets, TLC

\* batch splitter: the input list, the chunk size, the returned chunks
VARIABLES data, size, chunks, splitPc

\* one completion poller: which of the three pollers, its loop state, its
\* return value, and what it has done and seen so far
VARIABLES variant, max_retries, attempt, pollPc, ret, polls, sleeps,
          onlyPending, lastResp, lastAttempt

\* the ScrapeResponse POST /scrape-and-wait builds from what the API poller
\* has returned
VARIABLES answer

\* the time (in seconds) the poller waits, or has last waited, before its
\* next status request
VARIABLES wait_time

\* HTTP facade (api.py): the module-level gspread client, the 'LinkedIn
\* Accounts' sheet (data rows, header excluded), the number of requests handled,
\* the sheet as it was before the last request, what the last request did, and
\* the sheet rows whose usage an increment has brought to the daily limit
VARIABLES gspread_client, sheet, nreq, prevSheet, last, exhausted

\* concurrent batch run (main.py): the CONFIG["concurrency"] values in
\* force, the number of accounts and of batches handed over, the pipelines
\* (process_batch tasks) with their position, poll attempt and returned list,
\* the semaphore's counter, and the aggregation once gather has returned
VARIABLES CONFIG, accounts, batches, pipe, semaphore, gatherPc, all_results,
          successful_batches

\* the closing summary of the batch run, the dispatches made so far (batch
\* number, account, profile ids), and whether a task has finished ahead of
\* one with a lower index
VARIABLES summary, dispatched, overtaken

\* batch script (main.py __main__): the rows of the 'LinkedIn Accounts' sheet
\* at the time the script reads them, the profile ids read_profile_urls
\* returns, and the position of the script
VARIABLES accounts_sheet, profile_ids, runPc

\* sequential batch script (index.py __main__): the position of the script,
\* the number of the batch the for loop is at, and how the last dispatch
\* request of the loop ended
VARIABLES seqPc, loop_i, lastPost

\* read-only endpoints of the HTTP facade: the answer to the latest request
\* to POST /extract-profile-id or GET /accounts/status
VARIABLES reply

\* the HTTP facade under several requests: the sheet as it was when the server
\* started, per row the number of usage writes that have succeeded, the
\* (row, usage read) pairs those dispatches started from, whether one such
\* pair has occurred twice, and the number of /scrape-and-wait requests
\* suspended in their await
VARIABLES sheet0, usage_writes, read_values, repeated_read, awaiting

splitVars == <<data, size, chunks, splitPc>>

concVars == <<CONFIG, accounts, batches, pipe, semaphore, gatherPc, all_results,
              successful_batches, summary, dispatched, overtaken>>

runVars == <<accounts_sheet, profile_ids, runPc>>

seqVars == <<seqPc, loop_i, lastPost>>

infoVars == <<reply>>

serveVars == <<sheet0, usage_writes, read_values, repeated_read, awaiting>>

apiVars == <<gspread_client, sheet, nreq, prevSheet, last, exhausted>>

pollVars == <<variant, max_retries, attempt, pollPc, ret, polls, sleeps,
              onlyPending, lastResp, lastAttempt, answer, wait_time>>

vars == <<splitVars, pollVars, apiVars, concVars, runVars, seqVars, infoVars, serveVars>>

Min(a, b) == IF a < b THEN a ELSE b

(* ---------------- bounds of the model ---------------- *)
MaxLen == 4
MaxSize == 3
MaxRows == 2
MaxRequests == 2
MaxPipelines == 3
MaxConcurrent == 2
MaxBatchRetries == 2
Items == {"p1", "p2", "p3"}

(***************************************************************************)
(* Batch splitter: main.py split_batches / index.py split_batches          *)
(***************************************************************************)
\* range(start, stop, step) for step >= 1, as a sequence
PyRange(start, stop, step) ==
    LET n == IF stop > start THEN ((stop - start - 1) \div step) + 1 ELSE 0
    IN  [k \in 1..n |-> start + (k - 1) * step]

\* faulty variant of PySlice: the slice stops one element early
PySliceShort(s, lo, hi) == SubSeq(s, lo + 1, Min(hi - 1, Len(s)))

\* s[lo:hi] for 0 <= lo <= hi: the upper end is clamped to len(s)
PySlice(s, lo, hi) == SubSeq(s, lo + 1, Min(hi, Len(s)))

\* [data[i:i + size] for i in range(0, len(data), size)]
split_batches(d, sz) ==
    LET r == PyRange(0, Len(d), sz)
    IN  [k \in 1..Len(r) |-> PySlice(d, r[k], r[k] + sz)]

SeqsUpTo(S, n) == UNION {[1..k -> S] : k \in 0..n}

SplitIdle ==
    /\ data = <<>>
    /\ size = 1
    /\ chunks = <<>>
    /\ splitPc = "idle"

InitSplit ==
    /\ data \in SeqsUpTo(Items, MaxLen)
    /\ size \in 1..MaxSize
    /\ chunks = <<>>
    /\ splitPc = "start"

Split ==
    /\ splitPc = "start"
    /\ chunks' = split_batches(data, size)
    /\ splitPc' = "done"
    /\ UNCHANGED <<data, size>>
    /\ UNCHANGED <<pollVars, apiVars, concVars, runVars, seqVars, infoVars, serveVars>>

(***************************************************************************)
(* Completion pollers: api.py wait_for_completion, index.py                *)
(* wait_for_completion, main.py check_batch_status_async and               *)
(* wait_for_batch_completion                                               *)
(***************************************************************************)
None == [kind |-> "None"]
NoResp == [kind |-> "NoResp"]

\* an exception that leaves a function, as the caller (or gather) sees it
PyExc == [kind |-> "exception"]

\* a Python list value (kept apart from None and from dict values)
PyList(s) == [kind |-> "list", items |-> s]

\* the result lists an upstream "completed" payload may carry
ResultLists == {<<>>, <<"r1">>, <<"r1", "r2">>}

\* a 2xx answer of GET /scrape-status/{batch_id}: the JSON body, an object
\* with a status and possibly a "result" list
JsonResp(s, hr, r) ==
    [kind |-> "json", status |-> s, hasResult |-> hr, result |-> r,
     hasData |-> FALSE, data |-> <<>>]

\* a completed body that carries its records under a "data" key instead
JsonData(r) ==
    [kind |-> "json", status |-> "completed", hasResult |-> FALSE, result |-> <<>>,
     hasData |-> TRUE, data |-> r]

\* a RequestException / aiohttp error; code 0: no response (network error, timeout)
ErrResp(c) == [kind |-> "error", code |-> c]

PollResponses ==
    {JsonResp("completed", TRUE, r) : r \in ResultLists}
    \cup {JsonResp("completed", FALSE, <<>>)}
    \cup {JsonData(<<"r1", "r2">>)}
    \cup {JsonResp(s, FALSE, <<>>) : s \in {"failed", "in_progress", "absent", "queued"}}
    \cup {ErrResp(c) : c \in {0, 400, 404, 499, 500, 503}}

\* faulty variant of is_client_error: the upper end of the 4xx range is lost
is_client_error_below_499(resp) ==
    resp.kind = "error" /\ resp.code # 0 /\ 400 <= resp.code /\ resp.code < 499

\* hasattr(e, 'response') and e.response is not None and 400 <= code < 500
is_client_error(resp) ==
    resp.kind = "error" /\ resp.code # 0 /\ 400 <= resp.code /\ resp.code < 500

\* faulty variant of status_of: a body without a status field counts as failed
status_of_absent_failed(resp) ==
    IF resp.kind # "json" THEN "error"
    ELSE IF resp.status = "completed" THEN "completed"
    ELSE IF resp.status \in {"failed", "absent"} THEN "failed"
    ELSE "pending"

\* the mapping of the status field, shared by the three pollers
status_of(resp) ==
    IF resp.kind # "json" THEN "error"
    ELSE IF resp.status = "completed" THEN "completed"
    ELSE IF resp.status = "failed" THEN "failed"
    ELSE "pending"

api_max_retries == 10
index_max_retries == 10
max_retries_per_batch == 12

\* faulty variant of ApiTimeout: the timeout is reported as a failure
ApiTimeoutAsFailed ==
    [status |-> "failed", result |-> None, error |-> "Batch processing timeout"]

\* the dict the API poller returns once the for loop is exhausted
ApiTimeout == [status |-> "timeout", result |-> None, error |-> "Batch processing timeout"]
ApiFailed(err) == [status |-> "failed", result |-> None, error |-> err]

\* faulty variant of api_sleeps_after: the last attempt is followed by a wait too
api_sleeps_after_every(a, mx) == TRUE

\* if attempt < max_retries - 1: time.sleep(wait_interval) is not called on
\* the last attempt
api_sleeps_after(a, mx) == a < mx - 1

\* api.py wait_for_completion, one iteration of the for loop up to its sleep
api_poll(a, mx, resp) ==
    LET again == IF api_sleeps_after(a, mx)
                 THEN [pc |-> "sleep", ret |-> None]
                 ELSE [pc |-> "done", ret |-> ApiTimeout]
    IN  CASE status_of(resp) = "completed" ->
                [pc |-> "done", ret |-> [status |-> "completed", result |-> resp, error |-> None]]
          [] status_of(resp) = "failed" ->
                [pc |-> "done", ret |-> ApiFailed("upstream")]
          [] status_of(resp) = "pending" -> again
          [] OTHER ->
                IF is_client_error(resp)
                THEN [pc |-> "done", ret |-> ApiFailed("Client error")]
                ELSE again

\* index.py wait_for_completion, one iteration of the for loop up to its sleep
index_poll(a, mx, resp) ==
    CASE status_of(resp) = "completed" ->
            [pc |-> "done", ret |-> PyList(IF resp.hasResult THEN resp.result ELSE <<>>)]
      [] status_of(resp) = "failed" -> [pc |-> "done", ret |-> PyList(<<>>)]
      [] status_of(resp) = "pending" -> [pc |-> "sleep", ret |-> None]
      [] OTHER ->
            IF is_client_error(resp)
            THEN [pc |-> "done", ret |-> PyList(<<>>)]
            ELSE [pc |-> "sleep", ret |-> None]

\* main.py flatten_profile_data, on an opaque profile
flatten_profile_data(p) == <<"flat", p>>

\* main.py process_api_response
process_api_response(resp) ==
    LET profiles == IF resp.hasResult THEN resp.result ELSE <<"envelope">>
    IN  PyList([k \in 1..Len(profiles) |-> flatten_profile_data(profiles[k])])

\* main.py check_batch_status_async: a list, or None while in progress
check_batch_status_async(resp) ==
    CASE status_of(resp) = "completed" -> process_api_response(resp)
      [] status_of(resp) = "failed" -> PyList(<<>>)
      [] status_of(resp) = "pending" -> None
      [] OTHER -> PyList(<<>>)

\* main.py wait_for_batch_completion, one iteration of the for loop up to its sleep
batch_poll(a, mx, resp) ==
    LET result == check_batch_status_async(resp)
    IN  IF result # None
        THEN [pc |-> "done", ret |-> result]
        ELSE [pc |-> "sleep", ret |-> None]

poll_step(v, a, mx, resp) ==
    CASE v = "api" -> api_poll(a, mx, resp)
      [] v = "index" -> index_poll(a, mx, resp)
      [] OTHER -> batch_poll(a, mx, resp)

\* wait_interval of api.py and of index.py, and
\* CONFIG["concurrency"]["status_check_interval"] of main.py, in seconds
api_wait_interval == 10
index_wait_interval == 300
status_check_interval == 300

\* random.uniform(0.8, 1.2), in percent: both ends and the middle of the range
Jitters == {80, 100, 120}

\* faulty variant of batch_wait_time: the interval doubles with every attempt
batch_wait_time_doubling(base_interval, jitter, a) ==
    (base_interval * (2 ^ a) * jitter) \div 100

\* wait_time = base_interval * jitter; the attempt number has no part in it
batch_wait_time(base_interval, jitter, a) == (base_interval * jitter) \div 100

\* the waits a poller may take after the poll of attempt a
wait_times(v, a) ==
    CASE v = "api" -> {api_wait_interval}
      [] v = "index" -> {index_wait_interval}
      [] OTHER -> {batch_wait_time(status_check_interval, jitter, a) : jitter \in Jitters}

\* what each poller returns once the for loop is exhausted
timeout_ret(v) == IF v = "api" THEN ApiTimeout ELSE PyList(<<>>)

\* faulty variant of loop_continues: one iteration too many
loop_continues_one_more(a, mx) == a + 1 < mx + 1

\* for attempt in range(max_retries): is there a next iteration after attempt a
loop_continues(a, mx) == a + 1 < mx

Variants == {"api", "index", "batch"}

PollIdle ==
    /\ variant = "api"
    /\ max_retries = 0
    /\ attempt = 0
    /\ pollPc = "idle"
    /\ ret = None
    /\ polls = 0
    /\ sleeps = 0
    /\ onlyPending = TRUE
    /\ lastResp = NoResp
    /\ lastAttempt = 0
    /\ answer = None
    /\ wait_time = 0

InitPoll ==
    /\ variant \in Variants
    /\ max_retries = CASE variant = "api" -> api_max_retries
                       [] variant = "index" -> index_max_retries
                       [] OTHER -> max_retries_per_batch
    /\ attempt = 0
    /\ pollPc = "poll"
    /\ ret = None
    /\ polls = 0
    /\ sleeps = 0
    /\ onlyPending = TRUE
    /\ lastResp = NoResp
    /\ lastAttempt = 0
    /\ answer = None
    /\ wait_time = 0

\* one status request and the handling of its answer
Poll ==
    /\ pollPc = "poll"
    /\ \E resp \in PollResponses :
         LET st == poll_step(variant, attempt, max_retries, resp)
         IN  /\ pollPc' = st.pc
             /\ ret' = st.ret
             /\ lastResp' = resp
             /\ onlyPending' = (onlyPending /\ status_of(resp) = "pending")
             /\ IF st.pc = "sleep"
                THEN wait_time' \in wait_times(variant, attempt)
                ELSE wait_time' = wait_time
    /\ polls' = polls + 1
    /\ lastAttempt' = attempt
    /\ UNCHANGED <<variant, max_retries, attempt, sleeps, answer>>
    /\ UNCHANGED <<splitVars, apiVars, concVars, runVars, seqVars, infoVars, serveVars>>

\* the sleep returns: next iteration of the loop, or the code after the loop
Wake ==
    /\ pollPc = "sleep"
    /\ sleeps' = sleeps + 1
    /\ IF loop_continues(attempt, max_retries)
       THEN /\ attempt' = attempt + 1
            /\ pollPc' = "poll"
            /\ ret' = ret
       ELSE /\ attempt' = attempt
            /\ pollPc' = "done"
            /\ ret' = timeout_ret(variant)
    /\ UNCHANGED <<variant, max_retries, polls, onlyPending, lastResp, lastAttempt,
                   answer, wait_time>>
    /\ UNCHANGED <<splitVars, apiVars, concVars, runVars, seqVars, infoVars, serveVars>>

\* scrape_and_wait_for_result after the await: the response built from the
\* dict wait_for_completion has returned
scrape_and_wait_response(result) ==
    IF result.status = "completed"
    THEN [kind |-> "ScrapeResponse", success |-> TRUE,
          message |-> "Scraping completed successfully",
          data |-> IF result.result.hasData
                   THEN PyList(result.result.data)
                   ELSE result.result]
    ELSE [kind |-> "ScrapeResponse", success |-> FALSE,
          message |-> result.error, data |-> None]

\* POST /scrape-and-wait: wait_for_completion has returned in the executor
\* and the handler answers
Respond ==
    /\ pollPc = "done"
    /\ variant = "api"
    /\ answer = None
    /\ answer' = scrape_and_wait_response(ret)
    /\ UNCHANGED <<variant, max_retries, attempt, pollPc, ret, polls, sleeps,
                   onlyPending, lastResp, lastAttempt, wait_time>>
    /\ UNCHANGED <<splitVars, apiVars, concVars, runVars, seqVars, infoVars, serveVars>>

(***************************************************************************)
(* Account selector and job dispatcher of the HTTP facade: api.py          *)
(* parse_cookie, extract_ids, normalize_status, read_available_account,    *)
(* update_account_usage, start_scraping, scrape_linkedin_profile           *)
(***************************************************************************)
daily_limit == 250

\* ---- cells of the sheet, as get_all_values returns them (strings) ----
\* a daily_use cell: the decimal text of an integer, the empty (or blank)
\* string, or some other text
IntCell(n) == [k |-> "int", v |-> n]
EmptyCell == [k |-> "empty"]
TextCell == [k |-> "text"]

\* str(n)
PyStr(n) == IntCell(n)

\* int(daily_use_str) if daily_use_str else 0, ValueError -> 0
parse_daily_use(cell) ==
    IF cell.k = "int" THEN cell.v ELSE 0

\* a cookies cell: blank, a dict literal, a key=value string, a literal that
\* is no dict, text neither parser reads, or an expression nested too deep
\* for the parser ("overflow", such as 1+1+...+1 with some thousand terms);
\* js / li say what the blob holds for JSESSIONID / li_at: "absent", "empty"
\* (a value that strips to '') or "val"
Cookie(fmt, js, li) == [fmt |-> fmt, js |-> js, li |-> li]
BlankCookie == Cookie("blank", "absent", "absent")

\* parse_cookie: ast.literal_eval, then the key=value regex on ValueError,
\* SyntaxError and TypeError; the RecursionError or MemoryError that
\* literal_eval raises on an expression nested too deep is not caught
parse_cookie(c) ==
    CASE c.fmt = "dict" -> [JSESSIONID |-> c.js, li_at |-> c.li]
      [] c.fmt = "kv" -> [JSESSIONID |-> c.js, li_at |-> c.li]
      [] c.fmt = "overflow" -> PyExc
      [] OTHER -> [JSESSIONID |-> "absent", li_at |-> "absent"]

\* extract_ids: dict.get gives None for an absent key
extract_ids(cookie_data) == <<cookie_data.JSESSIONID, cookie_data.li_at>>

\* faulty variant of truthy_both: one token is enough
truthy_either(js, li) == js = "val" \/ li = "val"

\* if li_at and jsessionid: None and '' are falsy
truthy_both(js, li) == js = "val" /\ li = "val"

\* unicodedata.normalize("NFKD", status or "").strip().lower()
normalize_status(st) ==
    CASE st = " Verified " -> "verified"
      [] st = "VERIFIED" -> "verified"
      [] OTHER -> st

\* faulty variant of limit_reached: usage equal to the limit still passes
limit_reached_above(daily_use) == daily_use > daily_limit

\* if daily_use >= CONFIG["daily_limit"]: skip
limit_reached(daily_use) == daily_use >= daily_limit

Row(c, st, du, ck) == [complete |-> c, status |-> st, daily_use |-> du, cookies |-> ck]

StatusCells == {"verified", " Verified ", "VERIFIED", "unverified", ""}

\* the rows a sheet is built from: a usable row, and rows that differ from
\* it in one cell, in its length, or in two cells
SheetRows ==
    {Row(TRUE, st, IntCell(10), Cookie("dict", "val", "val")) : st \in StatusCells}
    \cup {Row(TRUE, "verified", du, Cookie("kv", "val", "val")) :
            du \in {EmptyCell, TextCell, IntCell(daily_limit - 1),
                    IntCell(daily_limit), IntCell(daily_limit + 1)}}
    \cup {Row(TRUE, "verified", IntCell(10), ck) :
            ck \in {BlankCookie, Cookie("garbage", "absent", "absent"),
                    Cookie("nondict", "absent", "absent"),
                    Cookie("overflow", "absent", "absent"),
                    Cookie("dict", "absent", "val"), Cookie("kv", "val", "empty")}}
    \cup {Row(FALSE, "verified", IntCell(10), Cookie("dict", "val", "val")),
          Row(TRUE, "unverified", IntCell(daily_limit), BlankCookie)}

UsageCells ==
    {EmptyCell, TextCell, IntCell(10), IntCell(daily_limit - 1),
     IntCell(daily_limit), IntCell(daily_limit + 1)}

CookieCells ==
    {BlankCookie, Cookie("garbage", "absent", "absent"),
     Cookie("nondict", "absent", "absent"), Cookie("overflow", "absent", "absent")}
    \cup {Cookie(fmt, js, li) : fmt \in {"dict", "kv"},
                                js \in {"absent", "empty", "val"},
                                li \in {"absent", "empty", "val"}}

\* every row the cells above make up
AllRows ==
    {Row(c, st, du, ck) : c \in BOOLEAN, st \in StatusCells,
                          du \in UsageCells, ck \in CookieCells}

\* the account dict of row i (1-based sheet row, the header being row 1)
Account(i, daily_use, ids) ==
    [kind |-> "account", row_index |-> i, daily_use |-> daily_use,
     JSESSIONID |-> ids[1], li_at |-> ids[2]]

\* the for loop of read_available_account up to parse_cookie: none of the
\* four continue statements is taken
row_parsed(row) ==
    /\ row.complete
    /\ normalize_status(row.status) = "verified"
    /\ ~limit_reached(parse_daily_use(row.daily_use))
    /\ row.cookies.fmt # "blank"

\* the body of the for loop of read_available_account: is the row returned
row_selected(row) ==
    /\ row_parsed(row)
    /\ parse_cookie(row.cookies) # PyExc
    /\ LET ids == extract_ids(parse_cookie(row.cookies))
       IN  truthy_both(ids[1], ids[2])

\* read_available_account once the rows are read: the first row the loop
\* returns, else None; the exception of parse_cookie leaves the loop
RECURSIVE scan_rows(_, _)
scan_rows(rows, k) ==
    IF k > Len(rows) THEN None
    ELSE IF row_parsed(rows[k]) /\ parse_cookie(rows[k].cookies) = PyExc
         THEN PyExc
    ELSE IF row_selected(rows[k])
         THEN Account(k + 1, parse_daily_use(rows[k].daily_use),
                      extract_ids(parse_cookie(rows[k].cookies)))
         ELSE scan_rows(rows, k + 1)

\* read_available_account; readOutcome: did open / get_all_values succeed and
\* does the header hold the four required columns
read_available_account(rows, readOutcome) ==
    IF readOutcome # "ok" THEN None ELSE scan_rows(rows, 1)

\* update_account_usage: the sheet after it; a failed write is logged only
update_account_usage(rows, account, updateOutcome) ==
    IF updateOutcome = "ok"
    THEN [rows EXCEPT ![account.row_index - 1].daily_use = PyStr(account.daily_use + 1)]
    ELSE rows

\* start_scraping: the POST, then the usage update; <<batch_id, sheet after>>
start_scraping(rows, account, postOutcome, updateOutcome) ==
    CASE postOutcome = "ok_batch_id" ->
            <<"batch_1", update_account_usage(rows, account, updateOutcome)>>
      [] postOutcome = "ok_no_batch_id" ->
            <<"None", update_account_usage(rows, account, updateOutcome)>>
      [] OTHER -> <<"None", rows>>

\* extract_profile_id_from_url on the kinds of URL a request carries
extract_profile_id_from_url(url) ==
    IF url = "linkedin.com/in/john-doe" THEN "john-doe" ELSE "None"

Urls == {"linkedin.com/in/john-doe", "linkedin.com/company/acme"}
ReadOutcomes == {"ok", "read_error", "column_missing"}
PostOutcomes ==
    {"transport_error", "non_2xx", "ok_invalid_json", "ok_no_batch_id", "ok_batch_id"}
UpdateOutcomes == {"ok", "write_error"}

NoRequest ==
    [http |-> 0, account |-> None, batch_id |-> "None", read |-> "ok",
     post |-> "none", update |-> "none", raised |-> FALSE]

ApiIdle ==
    /\ gspread_client = "None"
    /\ sheet = <<>>
    /\ nreq = 0
    /\ prevSheet = <<>>
    /\ last = NoRequest
    /\ exhausted = {}

InitApi ==
    /\ gspread_client \in {"client", "None"}
    /\ sheet \in SeqsUpTo(SheetRows, MaxRows) \cup {<<row>> : row \in AllRows}
    /\ nreq = 0
    /\ prevSheet = sheet
    /\ last = NoRequest
    /\ exhausted = {}

\* the rows whose stored usage the request has raised to the limit or beyond
newly_exhausted(before, after) ==
    {i \in 1..Len(after) :
        /\ after[i].daily_use # before[i].daily_use
        /\ after[i].daily_use.k = "int"
        /\ after[i].daily_use.v >= daily_limit}

\* what the handler records of a request that reached start_scraping
Dispatched(account, readOutcome, postOutcome, updateOutcome, batch_id) ==
    [http |-> IF batch_id = "None" THEN 500 ELSE 200,
     account |-> account,
     batch_id |-> batch_id,
     read |-> readOutcome,
     post |-> postOutcome,
     update |-> updateOutcome,
     raised |-> FALSE]

\* faulty variant of rows_at_select: the rows are those from before the
\* previous request's usage write, as if the two requests had interleaved
rows_at_select_stale(current, previous) == previous

\* the rows get_all_values returns to the selector: the handlers are
\* coroutines of one event loop and have no await between their first
\* statement and the usage write, so the store is as the latest write of an
\* earlier request has left it
rows_at_select(current, previous) == current

\* the handler of POST /scrape, and of POST /scrape-and-wait up to its
\* await: URL check, selection, dispatch and usage write
ScrapeHandler ==
    /\ nreq < MaxRequests
    /\ nreq' = nreq + 1
    /\ prevSheet' = sheet
    /\ \E url \in Urls :
         IF gspread_client = "None"
         THEN /\ last' = [NoRequest EXCEPT !.http = 500]
              /\ sheet' = sheet
         ELSE IF extract_profile_id_from_url(url) = "None"
         THEN /\ last' = [NoRequest EXCEPT !.http = 400]
              /\ sheet' = sheet
         ELSE \E readOutcome \in ReadOutcomes :
           LET account == read_available_account(rows_at_select(sheet, prevSheet),
                                                 readOutcome)
           IN  IF account = PyExc
               THEN /\ last' = [NoRequest EXCEPT !.http = 500, !.read = readOutcome,
                                                 !.raised = TRUE]
                    /\ sheet' = sheet
               ELSE IF account = None
               THEN /\ last' = [NoRequest EXCEPT !.http = 429, !.read = readOutcome]
                    /\ sheet' = sheet
               ELSE \E postOutcome \in PostOutcomes :
                      \E updateOutcome \in
                            IF postOutcome \in {"ok_batch_id", "ok_no_batch_id"}
                            THEN UpdateOutcomes ELSE {"none"} :
                        LET started == start_scraping(sheet, account, postOutcome,
                                                      updateOutcome)
                        IN  /\ sheet' = started[2]
                            /\ last' = Dispatched(account, readOutcome, postOutcome,
                                                  updateOutcome, started[1])
    /\ exhausted' = exhausted \cup newly_exhausted(sheet, sheet')
    /\ UNCHANGED gspread_client
    /\ UNCHANGED <<splitVars, pollVars, concVars, runVars, seqVars, infoVars>>

\* POST /scrape: scrape_linkedin_profile, the whole handler
Scrape ==
    /\ ScrapeHandler
    /\ UNCHANGED serveVars

(***************************************************************************)
(* Read-only endpoints of the HTTP facade: api.py extract_profile_id and   *)
(* get_accounts_status                                                     *)
(***************************************************************************)

\* raise HTTPException(status_code=..., detail=...)
HTTPException(status_code, detail) ==
    [kind |-> "HTTPException", status_code |-> status_code, detail |-> detail]

ProfileIdResponse(linkedin_url, profile_id) ==
    [kind |-> "ProfileIdResponse", status_code |-> 200, linkedin_url |-> linkedin_url,
     profile_id |-> profile_id, success |-> TRUE]

\* the body of the try block of extract_profile_id: the response, or the
\* exception raised for a URL without profile id
extract_profile_id_try(linkedin_url) ==
    LET profile_id == extract_profile_id_from_url(linkedin_url)
    IN  IF profile_id = "None"
        THEN HTTPException(400, "Could not extract profile ID from the provided URL")
        ELSE ProfileIdResponse(linkedin_url, profile_id)

\* POST /extract-profile-id: the try block is closed by 'except Exception'
\* alone, and HTTPException is an Exception: what the try block raises, its
\* own HTTPException included, is answered as HTTP 500
extract_profile_id(linkedin_url) ==
    LET tried == extract_profile_id_try(linkedin_url)
    IN  IF tried.kind = "HTTPException"
        THEN HTTPException(500, "Internal server error")
        ELSE tried

\* one entry of accounts_status: the row number, the usage read and the
\* available flag (verified and below the limit)
status_entry(row, i) ==
    [row |-> i,
     verification_status |-> normalize_status(row.status),
     daily_use |-> parse_daily_use(row.daily_use),
     available |-> /\ normalize_status(row.status) = "verified"
                   /\ parse_daily_use(row.daily_use) < daily_limit]

\* accounts_status after the loop over rows[1..k]: short rows are left out
RECURSIVE status_entries(_, _)
status_entries(rows, k) ==
    IF k = 0 THEN <<>>
    ELSE IF rows[k].complete
         THEN Append(status_entries(rows, k - 1), status_entry(rows[k], k + 1))
         ELSE status_entries(rows, k - 1)

\* sum(1 for acc in accounts_status if acc["available"])
available_count(entries) ==
    Cardinality({k \in DOMAIN entries : entries[k].available})

\* GET /accounts/status, the whole handler; readOutcome as for
\* read_available_account
get_accounts_status(client, rows, readOutcome) ==
    IF client = "None"
    THEN HTTPException(500, "Google Sheets client not initialized")
    ELSE IF readOutcome = "read_error"
    THEN HTTPException(500, "Failed to get accounts status")
    ELSE IF rows = <<>>
    THEN [kind |-> "NoAccounts", status_code |-> 200, accounts |-> <<>>]
    ELSE IF readOutcome = "column_missing"
    THEN HTTPException(500, "Failed to get accounts status")
    ELSE LET entries == status_entries(rows, Len(rows))
         IN  [kind |-> "AccountsStatus", status_code |-> 200,
              total_accounts |-> Len(entries),
              available_accounts |-> available_count(entries),
              daily_limit |-> daily_limit,
              accounts |-> entries]

\* an answer of one of the two endpoints, with the request it answers
Reply(endpoint, request, response) ==
    [endpoint |-> endpoint, request |-> request, response |-> response]

InfoIdle == reply = None

InfoFrame ==
    UNCHANGED <<splitVars, pollVars, apiVars, concVars, runVars, seqVars, serveVars>>

\* a request to POST /extract-profile-id is answered
ExtractProfileId ==
    /\ \E linkedin_url \in Urls :
         reply' = Reply("/extract-profile-id", linkedin_url,
                        extract_profile_id(linkedin_url))
    /\ InfoFrame

\* a request to GET /accounts/status is answered
AccountsStatus ==
    /\ \E readOutcome \in ReadOutcomes :
         reply' = Reply("/accounts/status", "none",
                        get_accounts_status(gspread_client, sheet, readOutcome))
    /\ InfoFrame

(***************************************************************************)
(* Concurrent batch run: main.py start_scraping_async, process_batch,      *)
(* process_all_batches_concurrent                                          *)
(***************************************************************************)

\* num_to_process = min(len(accounts), len(batches))
num_to_process == Min(Len(accounts), Len(batches))

Pipelines == 1..num_to_process

\* an account dict as read_accounts builds it; row is the sheet row it was
\* read from (1-based, the header being row 1), "absent" stands for a key that
\* is missing or holds None
BatchAccount(js, li, row) ==
    [kind |-> "account", JSESSIONID |-> js, li_at |-> li, row |-> row]

\* account["JSESSIONID"].replace("ajax:", "") ahead of the try block: a
\* KeyError or an AttributeError leaves start_scraping_async
jsessionid_raises(account) == account.JSESSIONID = "absent"

\* start_scraping_async: the batch id, or None on any exception inside the
\* try block, on a non-2xx answer and on a 2xx answer without batch_id
start_scraping_async(postOutcome) ==
    IF postOutcome = "ok_batch_id" THEN "batch_1" ELSE "None"

\* faulty variant of semaphore_free: a slot is granted at value 0
semaphore_free_at_zero(value) == value >= 0

\* asyncio.Semaphore.acquire goes through without waiting while value > 0
semaphore_free(value) == value > 0

\* faulty variant of semaphore_acquire: the slot is not taken off the counter
semaphore_acquire_uncounted(value) == value

\* asyncio.Semaphore.acquire on entering the async with block
semaphore_acquire(value) == value - 1

\* faulty variant of semaphore_release: the slot is kept
semaphore_release_kept(value) == value

\* asyncio.Semaphore.release on leaving the async with block
semaphore_release(value) == value + 1

\* aiohttp.TCPConnector(limit=20, limit_per_host=5): every request of the run
\* goes to the one scrape_api host
limit_per_host == 5

\* a request waits for a connection while limit_per_host of them are in use;
\* a pipeline holds one from sending a request until its answer is read
connector_free(p) ==
    Cardinality({j \in DOMAIN p : p[j].pc \in {"posting", "polling"}}) < limit_per_host

\* a process_batch task: its position, the poll attempt, the value it
\* returned (or the exception it raised), and its two arguments
Pipe(pc, a, r, account, batch_profile_ids) ==
    [pc |-> pc, attempt |-> a, result |-> r, account |-> account,
     profile_ids |-> batch_profile_ids]

\* faulty variant of task_account: every task is given the first account
task_account_first(accts, i) == accts[1]

\* account = accounts[i]
task_account(accts, i) == accts[i]

\* faulty variant of make_tasks: one task per batch, the accounts taken in turn
make_tasks_per_batch(accts, bts) ==
    [i \in 1..(IF accts = <<>> THEN 0 ELSE Len(bts)) |->
        Pipe("waiting", 0, None, accts[((i - 1) % Len(accts)) + 1], bts[i])]

\* the tasks list: process_batch(session, accounts[i], batches[i], i + 1, semaphore)
make_tasks(accts, bts) ==
    [i \in 1..Min(Len(accts), Len(bts)) |->
        Pipe("waiting", 0, None, task_account(accts, i), bts[i])]

\* the account lists and batch lists process_all_batches_concurrent is called
\* with: n accounts read from rows 2..n+1, some of them without a usable
\* JSESSIONID entry, and m batches of one profile id each
AccountLists(n) == {[i \in 1..n |-> BatchAccount(f[i], "val", i + 1)] :
                        f \in [1..n -> {"val", "absent"}]}

BatchLists(m) == {[k \in 1..m |-> <<k>>]}

ConcNotStarted ==
    /\ accounts = <<>>
    /\ batches = <<>>
    /\ pipe = <<>>
    /\ semaphore = 0
    /\ gatherPc = "idle"
    /\ all_results = <<>>
    /\ successful_batches = 0
    /\ summary = None
    /\ dispatched = {}
    /\ overtaken = FALSE

ConcIdle ==
    /\ CONFIG = [max_concurrent_batches |-> 0, max_retries_per_batch |-> 0]
    /\ ConcNotStarted

ConcConfigs ==
    [max_concurrent_batches : 1..MaxConcurrent,
     max_retries_per_batch : 1..MaxBatchRetries]

\* process_all_batches_concurrent up to the gather: the semaphore is created
\* with max_concurrent_batches slots and one task per (account, batch) pair
InitConc ==
    /\ CONFIG \in ConcConfigs
    /\ accounts \in UNION {AccountLists(n) : n \in 0..MaxPipelines}
    /\ batches \in UNION {BatchLists(m) : m \in 0..MaxPipelines}
    /\ pipe = make_tasks(accounts, batches)
    /\ semaphore = CONFIG.max_concurrent_batches
    /\ gatherPc = "gather"
    /\ all_results = <<>>
    /\ successful_batches = 0
    /\ summary = None
    /\ dispatched = {}
    /\ overtaken = FALSE

ConcFrame ==
    UNCHANGED <<CONFIG, accounts, batches, splitVars, pollVars, apiVars, runVars,
                seqVars, infoVars, serveVars>>

\* faulty variant of first_step_in_slot: the request is sent at once
first_step_dispatch == "posting"

\* the first statements inside the async with block: the random start delay
\* is drawn and slept
first_step_in_slot == "delay"

\* async with semaphore: the tasks start in index order and the waiters are
\* woken first come, first served
Acquire(i) ==
    /\ pipe[i].pc = "waiting"
    /\ semaphore_free(semaphore)
    /\ \A j \in 1..(i - 1) : pipe[j].pc # "waiting"
    /\ semaphore' = semaphore_acquire(semaphore)
    /\ pipe' = [pipe EXCEPT ![i].pc = first_step_in_slot]
    /\ UNCHANGED <<gatherPc, all_results, successful_batches, summary, dispatched,
                   overtaken>>
    /\ ConcFrame

\* process_batch is left, by return or by an exception: the async with block
\* releases the slot and the task holds its outcome; overtaken records that a
\* task has finished ahead of one with a lower index
Finish(i, outcome) ==
    /\ pipe' = [pipe EXCEPT ![i].pc = "done", ![i].attempt = 0, ![i].result = outcome]
    /\ semaphore' = semaphore_release(semaphore)
    /\ overtaken' = (overtaken \/ \E j \in 1..(i - 1) : pipe[j].pc # "done")

\* the random start delay is over: start_scraping_async builds the payload,
\* which raises for an account without JSESSIONID, and sends the POST
DelayDone(i) ==
    /\ pipe[i].pc = "delay"
    /\ IF jsessionid_raises(pipe[i].account)
       THEN /\ Finish(i, PyExc)
            /\ UNCHANGED dispatched
       ELSE /\ connector_free(pipe)
            /\ pipe' = [pipe EXCEPT ![i].pc = "posting"]
            /\ dispatched' = dispatched \cup
                   {[batch_number |-> i, account |-> pipe[i].account,
                     profile_ids |-> pipe[i].profile_ids]}
            /\ UNCHANGED <<semaphore, overtaken>>
    /\ UNCHANGED <<gatherPc, all_results, successful_batches, summary>>
    /\ ConcFrame

\* the POST is answered: no batch id ends the pipeline with [] and frees the
\* slot, a batch id starts wait_for_batch_completion with its first GET
PostDone(i) ==
    /\ pipe[i].pc = "posting"
    /\ \E batch_id \in {start_scraping_async(postOutcome) : postOutcome \in PostOutcomes} :
         IF batch_id = "None"
         THEN Finish(i, PyList(<<>>))
         ELSE /\ pipe' = [pipe EXCEPT ![i].pc = "polling"]
              /\ UNCHANGED <<semaphore, overtaken>>
    /\ UNCHANGED <<gatherPc, all_results, successful_batches, summary, dispatched>>
    /\ ConcFrame

\* a status GET is answered: the pipeline returns and frees the slot, or
\* sleeps the jittered interval
PollDone(i) ==
    /\ pipe[i].pc = "polling"
    /\ \E st \in {batch_poll(pipe[i].attempt, CONFIG.max_retries_per_batch, resp) :
                        resp \in PollResponses} :
         IF st.pc = "done"
         THEN Finish(i, st.ret)
         ELSE /\ pipe' = [pipe EXCEPT ![i].pc = "sleeping"]
              /\ UNCHANGED <<semaphore, overtaken>>
    /\ UNCHANGED <<gatherPc, all_results, successful_batches, summary, dispatched>>
    /\ ConcFrame

\* the sleep is over: the next GET, or the end of the loop, which returns []
\* and frees the slot
WakeUp(i) ==
    /\ pipe[i].pc = "sleeping"
    /\ IF loop_continues(pipe[i].attempt, CONFIG.max_retries_per_batch)
       THEN /\ connector_free(pipe)
            /\ pipe' = [pipe EXCEPT ![i].pc = "polling", ![i].attempt = pipe[i].attempt + 1]
            /\ UNCHANGED <<semaphore, overtaken>>
       ELSE Finish(i, timeout_ret("batch"))
    /\ UNCHANGED <<gatherPc, all_results, successful_batches, summary, dispatched>>
    /\ ConcFrame

\* isinstance(result, list) and result
is_nonempty_list(result) == result.kind = "list" /\ result.items # <<>>

\* faulty variant of extend_results: a later batch's results go in front
RECURSIVE extend_results_front(_, _)
extend_results_front(results, k) ==
    IF k = 0 THEN <<>>
    ELSE IF is_nonempty_list(results[k])
         THEN results[k].items \o extend_results_front(results, k - 1)
         ELSE extend_results_front(results, k - 1)

\* all_results after the loop over results[1..k]
RECURSIVE extend_results(_, _)
extend_results(results, k) ==
    IF k = 0 THEN <<>>
    ELSE IF is_nonempty_list(results[k])
         THEN extend_results(results, k - 1) \o results[k].items
         ELSE extend_results(results, k - 1)

\* faulty variant of count_successful: every list counts, empty or not
RECURSIVE count_lists(_, _)
count_lists(results, k) ==
    IF k = 0 THEN 0
    ELSE count_lists(results, k - 1) + (IF results[k].kind = "list" THEN 1 ELSE 0)

\* successful_batches after the loop over results[1..k]
RECURSIVE count_successful(_, _)
count_successful(results, k) ==
    IF k = 0 THEN 0
    ELSE count_successful(results, k - 1)
         + (IF is_nonempty_list(results[k]) THEN 1 ELSE 0)

\* faulty variant of return_exceptions: gather re-raises the first exception
return_exceptions_off == FALSE

\* asyncio.gather(*tasks, return_exceptions=True)
return_exceptions == TRUE

\* faulty variant of gather_returns: the first finished task ends the wait
gather_first_done(p) == \E i \in DOMAIN p : p[i].pc = "done"

\* await asyncio.gather(*tasks): every task has finished
gather_returns(p) == \A i \in DOMAIN p : p[i].pc = "done"

\* an exception leaves gather at once when return_exceptions is off
gather_raises(p) ==
    ~return_exceptions /\ \E i \in DOMAIN p : p[i].pc = "done" /\ p[i].result = PyExc

\* the two closing log lines: successful/total batches and the result count
Summary(successful, total, collected) ==
    [kind |-> "summary", successful_batches |-> successful,
     num_to_process |-> total, total_results |-> collected]

\* asyncio.gather has returned: the loop over the results and the summary
Gather ==
    /\ gatherPc = "gather"
    /\ IF gather_raises(pipe)
       THEN /\ gatherPc' = "raised"
            /\ UNCHANGED <<all_results, successful_batches, summary>>
       ELSE /\ gather_returns(pipe)
            /\ LET results == [i \in Pipelines |-> pipe[i].result]
                   collected == extend_results(results, num_to_process)
                   successful == count_successful(results, num_to_process)
               IN  /\ all_results' = collected
                   /\ successful_batches' = successful
                   /\ summary' = Summary(successful, num_to_process, Len(collected))
            /\ gatherPc' = "returned"
    /\ UNCHANGED <<pipe, semaphore, dispatched, overtaken>>
    /\ ConcFrame

(***************************************************************************)
(* Batch script: main.py read_accounts, the __main__ block and             *)
(* run_concurrent_scraping                                                 *)
(***************************************************************************)
batch_size == 50

\* read_accounts, the for loop up to parse_cookie: the row is complete,
\* verified and its cookies cell is not blank (daily_use is not looked at)
account_row_parsed(row) ==
    /\ row.complete
    /\ normalize_status(row.status) = "verified"
    /\ row.cookies.fmt # "blank"

\* read_accounts, the body of the for loop: is the row appended
account_row_ok(row) ==
    /\ account_row_parsed(row)
    /\ parse_cookie(row.cookies) # PyExc
    /\ LET ids == extract_ids(parse_cookie(row.cookies))
       IN  truthy_both(ids[1], ids[2])

\* accounts after the loop over rows[1..k], or the exception parse_cookie
\* has let through
RECURSIVE append_accounts(_, _)
append_accounts(rows, k) ==
    IF k = 0 THEN PyList(<<>>)
    ELSE LET before == append_accounts(rows, k - 1)
         IN  IF before = PyExc THEN PyExc
             ELSE IF account_row_parsed(rows[k]) /\ parse_cookie(rows[k].cookies) = PyExc
             THEN PyExc
             ELSE IF account_row_ok(rows[k])
             THEN LET ids == extract_ids(parse_cookie(rows[k].cookies))
                  IN  PyList(Append(before.items, BatchAccount(ids[1], ids[2], k + 1)))
             ELSE before

\* read_accounts; readOutcome as for read_available_account
read_accounts(rows, readOutcome) ==
    IF readOutcome # "ok" THEN PyList(<<>>) ELSE append_accounts(rows, Len(rows))

VerifiedRow(du) == Row(TRUE, "verified", du, Cookie("dict", "val", "val"))

\* the 'LinkedIn Accounts' sheets the script is run on
RunSheets ==
    { <<>>,
      <<VerifiedRow(IntCell(10))>>,
      <<VerifiedRow(IntCell(daily_limit))>>,
      <<Row(TRUE, "unverified", IntCell(10), Cookie("dict", "val", "val")),
        VerifiedRow(IntCell(10))>>,
      <<Row(FALSE, "verified", IntCell(10), Cookie("dict", "val", "val")),
        Row(TRUE, "verified", IntCell(10), Cookie("kv", "val", "empty")),
        VerifiedRow(EmptyCell)>>,
      <<VerifiedRow(IntCell(10)), VerifiedRow(IntCell(daily_limit + 1))>>,
      <<VerifiedRow(IntCell(10)), VerifiedRow(IntCell(daily_limit - 1)),
        VerifiedRow(IntCell(10))>>,
      <<Row(TRUE, "verified", IntCell(10), Cookie("overflow", "absent", "absent")),
        VerifiedRow(IntCell(10))>> }

\* how many profile ids read_profile_urls returns
ProfileCounts == {0, 1, 51, 120}

RunIdle ==
    /\ accounts_sheet = <<>>
    /\ profile_ids = <<>>
    /\ runPc = "idle"

InitRun ==
    /\ accounts_sheet \in RunSheets
    /\ profile_ids \in {[k \in 1..n |-> k] : n \in ProfileCounts}
    /\ runPc = "start"
    /\ CONFIG \in ConcConfigs
    /\ ConcNotStarted

\* the __main__ block up to the gather: the client, the two reads, the exits
\* on no accounts and on no profile ids, run_concurrent_scraping's split and
\* the creation of the tasks
Main ==
    /\ runPc = "start"
    /\ \E client \in {"client", "None"} :
         \E readOutcome \in IF client = "None" THEN {"ok"} ELSE ReadOutcomes :
           LET read == read_accounts(accounts_sheet, readOutcome)
           IN  IF client = "None"
               THEN /\ runPc' = "exited"
                    /\ UNCHANGED <<accounts, batches, pipe, semaphore, gatherPc>>
               ELSE IF read = PyExc
               THEN /\ runPc' = "crashed"
                    /\ UNCHANGED <<accounts, batches, pipe, semaphore, gatherPc>>
               ELSE IF read.items = <<>> \/ profile_ids = <<>>
               THEN /\ runPc' = "exited"
                    /\ UNCHANGED <<accounts, batches, pipe, semaphore, gatherPc>>
               ELSE /\ runPc' = "running"
                    /\ accounts' = read.items
                    /\ batches' = split_batches(profile_ids, batch_size)
                    /\ pipe' = make_tasks(accounts', batches')
                    /\ semaphore' = CONFIG.max_concurrent_batches
                    /\ gatherPc' = "gather"
    /\ UNCHANGED <<accounts_sheet, profile_ids, CONFIG, all_results,
                   successful_batches, summary, dispatched, overtaken>>
    /\ UNCHANGED <<splitVars, pollVars, apiVars, seqVars, infoVars, serveVars>>

(***************************************************************************)
(* Sequential batch script: index.py start_scraping and the for loop of    *)
(* the __main__ block                                                      *)
(***************************************************************************)

\* how the POST of index.py start_scraping may end: as in PostOutcomes, and a
\* 2xx answer whose JSON body is no object (a list, a string, null)
IndexPostOutcomes == PostOutcomes \cup {"ok_not_object"}

\* index.py start_scraping: the batch id, None on a RequestException (no
\* answer, raise_for_status, a body that is no JSON) and on a 2xx object
\* without batch_id; response.json().get on a body that is no object raises
\* AttributeError, which the except clause does not name
index_start_scraping(postOutcome) ==
    CASE postOutcome = "ok_batch_id" -> "batch_1"
      [] postOutcome = "ok_not_object" -> "raise"
      [] OTHER -> "None"

SeqIdle ==
    /\ seqPc = "idle"
    /\ loop_i = 0
    /\ lastPost = "none"

\* the accounts read_accounts returns: both tokens are non-empty strings
SeqAccountLists(n) == {[i \in 1..n |-> BatchAccount("val", "val", i + 1)]}

\* index.py __main__ at the head of the for loop: accounts and urls are not
\* empty, the urls are split, all_results is empty
InitSeq ==
    /\ seqPc = "loop"
    /\ loop_i = 1
    /\ lastPost = "none"
    /\ accounts \in UNION {SeqAccountLists(n) : n \in 1..MaxPipelines}
    /\ batches \in UNION {BatchLists(m) : m \in 1..MaxPipelines}
    /\ all_results = <<>>
    /\ dispatched = {}
    /\ CONFIG = [max_concurrent_batches |-> 0, max_retries_per_batch |-> 0]
    /\ pipe = <<>>
    /\ semaphore = 0
    /\ gatherPc = "idle"
    /\ successful_batches = 0
    /\ summary = None
    /\ overtaken = FALSE

SeqFrame ==
    UNCHANGED <<CONFIG, accounts, batches, pipe, semaphore, gatherPc,
                successful_batches, summary, overtaken, splitVars, apiVars, runVars,
                infoVars, serveVars>>

\* one iteration of the for loop up to the answer of start_scraping: the
\* script dies on an exception, goes on to the next batch without a batch id,
\* and enters wait_for_completion with one
SeqDispatch ==
    /\ seqPc = "loop"
    /\ loop_i <= num_to_process
    /\ dispatched' = dispatched \cup
           {[batch_number |-> loop_i, account |-> task_account(accounts, loop_i),
             profile_ids |-> batches[loop_i]]}
    /\ \E postOutcome \in IndexPostOutcomes :
         LET batch_id == index_start_scraping(postOutcome)
         IN  /\ lastPost' = postOutcome
             /\ CASE batch_id = "raise" ->
                        /\ seqPc' = "crashed"
                        /\ UNCHANGED <<loop_i, pollVars>>
                  [] batch_id = "None" ->
                        /\ seqPc' = "loop"
                        /\ loop_i' = loop_i + 1
                        /\ UNCHANGED pollVars
                  [] OTHER ->
                        /\ seqPc' = "waiting"
                        /\ variant' = "index"
                        /\ max_retries' = index_max_retries
                        /\ pollPc' = "poll"
                        /\ UNCHANGED <<loop_i, attempt, ret, polls, sleeps, onlyPending,
                                       lastResp, lastAttempt, answer, wait_time>>
    /\ UNCHANGED all_results
    /\ SeqFrame

\* wait_for_completion has returned: a non-empty result extends all_results,
\* and the loop goes on to the next batch
SeqCollect ==
    /\ seqPc = "waiting"
    /\ pollPc = "done"
    /\ all_results' = all_results \o ret.items
    /\ loop_i' = loop_i + 1
    /\ seqPc' = "loop"
    /\ variant' = "api"
    /\ max_retries' = 0
    /\ attempt' = 0
    /\ pollPc' = "idle"
    /\ ret' = None
    /\ polls' = 0
    /\ sleeps' = 0
    /\ onlyPending' = TRUE
    /\ lastResp' = NoResp
    /\ lastAttempt' = 0
    /\ wait_time' = 0
    /\ UNCHANGED <<answer, lastPost, dispatched>>
    /\ SeqFrame

\* the for loop is over: the results are written and the script ends
SeqFinish ==
    /\ seqPc = "loop"
    /\ loop_i > num_to_process
    /\ seqPc' = "finished"
    /\ UNCHANGED <<loop_i, lastPost, all_results, dispatched, pollVars>>
    /\ SeqFrame

(***************************************************************************)
(* The HTTP facade under several requests: api.py scrape_linkedin_profile  *)
(* and scrape_and_wait_for_result as coroutines of one event loop          *)
(***************************************************************************)

\* the rows of the sheets the server is run on: usable rows with different
\* usage cells, and a row that is not verified
ServeRows ==
    {VerifiedRow(du) : du \in {EmptyCell, IntCell(10), IntCell(daily_limit - 1)}}
    \cup {Row(TRUE, "unverified", IntCell(10), Cookie("dict", "val", "val"))}

ServeIdle ==
    /\ sheet0 = <<>>
    /\ usage_writes = <<>>
    /\ read_values = {}
    /\ repeated_read = FALSE
    /\ awaiting = 0

\* the server has started (startup_event has built the client) and no request
\* has arrived
InitServe ==
    /\ gspread_client = "client"
    /\ sheet \in SeqsUpTo(ServeRows, MaxRows)
    /\ nreq = 0
    /\ prevSheet = sheet
    /\ last = NoRequest
    /\ exhausted = {}
    /\ sheet0 = sheet
    /\ usage_writes = [k \in 1..Len(sheet) |-> 0]
    /\ read_values = {}
    /\ repeated_read = FALSE
    /\ awaiting = 0

\* what the request just handled adds to the record of usage writes: the
\* row written and the usage value the write started from
RecordUsageWrite ==
    IF last'.update = "ok"
    THEN LET k == last'.account.row_index - 1
             pair == <<last'.account.row_index, last'.account.daily_use>>
         IN  /\ usage_writes' = [usage_writes EXCEPT ![k] = usage_writes[k] + 1]
             /\ read_values' = read_values \cup {pair}
             /\ repeated_read' = (repeated_read \/ pair \in read_values)
    ELSE UNCHANGED <<usage_writes, read_values, repeated_read>>

\* a request to POST /scrape runs from its first statement to its answer
ServeScrape ==
    /\ ScrapeHandler
    /\ RecordUsageWrite
    /\ UNCHANGED <<sheet0, awaiting>>

\* a request to POST /scrape-and-wait runs up to
\* await loop.run_in_executor(executor, wait_for_completion, batch_id), where
\* it is suspended, or to the HTTPException it answers with before
ServeScrapeAndWait ==
    /\ ScrapeHandler
    /\ RecordUsageWrite
    /\ awaiting' = IF last'.batch_id # "None" THEN awaiting + 1 ELSE awaiting
    /\ UNCHANGED sheet0

\* wait_for_completion has returned in its worker thread: a suspended
\* /scrape-and-wait request is resumed and answers
ServeAwaitReturns ==
    /\ awaiting > 0
    /\ awaiting' = awaiting - 1
    /\ UNCHANGED <<sheet0, usage_writes, read_values, repeated_read>>
    /\ UNCHANGED <<splitVars, pollVars, apiVars, concVars, runVars, seqVars, infoVars>>

(***************************************************************************)
(* Specifications: one per component, the other components idle            *)
(***************************************************************************)
NextSplit == Split

SplitInit == InitSplit /\ PollIdle /\ ApiIdle /\ ConcIdle /\ RunIdle /\ SeqIdle
              /\ InfoIdle /\ ServeIdle

SpecSplit == SplitInit /\ [][NextSplit]_vars

NextPoll == Poll \/ Wake \/ Respond

PollInit == InitPoll /\ SplitIdle /\ ApiIdle /\ ConcIdle /\ RunIdle /\ SeqIdle
              /\ InfoIdle /\ ServeIdle

SpecPoll == PollInit /\ [][NextPoll]_vars

NextApi == Scrape

ApiInit == InitApi /\ SplitIdle /\ PollIdle /\ ConcIdle /\ RunIdle /\ SeqIdle
              /\ InfoIdle /\ ServeIdle

SpecApi == ApiInit /\ [][NextApi]_vars

NextConc ==
    \/ \E i \in Pipelines : Acquire(i)
    \/ \E i \in Pipelines : DelayDone(i)
    \/ \E i \in Pipelines : PostDone(i)
    \/ \E i \in Pipelines : PollDone(i)
    \/ \E i \in Pipelines : WakeUp(i)
    \/ Gather

ConcInit == InitConc /\ SplitIdle /\ PollIdle /\ ApiIdle /\ RunIdle /\ SeqIdle
              /\ InfoIdle /\ ServeIdle

SpecConc == ConcInit /\ [][NextConc]_vars

\* the event loop runs a task that is ready, and every HTTP call and every
\* sleep returns: a step that is possible is eventually taken
FairConc == ConcInit /\ [][NextConc]_vars /\ WF_vars(NextConc)

NextRun ==
    \/ Main
    \/ \E i \in Pipelines : Acquire(i)
    \/ \E i \in Pipelines : DelayDone(i)
    \/ \E i \in Pipelines : PostDone(i)
    \/ \E i \in Pipelines : PollDone(i)
    \/ \E i \in Pipelines : WakeUp(i)
    \/ Gather

RunInit == InitRun /\ SplitIdle /\ PollIdle /\ ApiIdle /\ SeqIdle
              /\ InfoIdle /\ ServeIdle

SpecRun == RunInit /\ [][NextRun]_vars

NextSeq == SeqDispatch \/ Poll \/ Wake \/ SeqCollect \/ SeqFinish

SeqInit == InitSeq /\ SplitIdle /\ PollIdle /\ ApiIdle /\ RunIdle
              /\ InfoIdle /\ ServeIdle

SpecSeq == SeqInit /\ [][NextSeq]_vars

NextInfo == ExtractProfileId \/ AccountsStatus

InfoInit == InitApi /\ reply = None /\ SplitIdle /\ PollIdle /\ ConcIdle /\ RunIdle
            /\ SeqIdle /\ ServeIdle

SpecInfo == InfoInit /\ [][NextInfo]_vars

NextServe == ServeScrape \/ ServeScrapeAndWait \/ ServeAwaitReturns

ServeInit == InitServe /\ SplitIdle /\ PollIdle /\ ConcIdle /\ RunIdle /\ SeqIdle
             /\ InfoIdle

SpecServe == ServeInit /\ [][NextServe]_vars

(***************************************************************************)
(* Claims about the batch splitter (SpecSplit)                             *)
(***************************************************************************)
RECURSIVE Concat(_)
Concat(ss) == IF ss = <<>> THEN <<>> ELSE Head(ss) \o Concat(Tail(ss))

CeilDiv(n, s) == (n + s - 1) \div s

\* C5: for every chunk size S >= 1 and list of length N, split_batches
\* returns exactly ceil(N/S) chunks, each of length <= S, all but possibly the
\* last of length exactly S, whose concatenation in order is the input list.
C5_SplitExact ==
    splitPc = "done" =>
        /\ Len(chunks) = CeilDiv(Len(data), size)
        /\ \A k \in 1..Len(chunks) : Len(chunks[k]) >= 1 /\ Len(chunks[k]) <= size
        /\ \A k \in 1..(Len(chunks) - 1) : Len(chunks[k]) = size
        /\ Concat(chunks) = data

\* a list whose length is not a multiple of the chunk size has been split
\* into several chunks, the last one shorter
C5_Witness ==
    /\ splitPc = "done"
    /\ Len(chunks) >= 2
    /\ Len(chunks[Len(chunks)]) < size
    /\ data[1] # data[2]
(***************************************************************************)
(* Claims about the completion pollers (SpecPoll)                          *)
(***************************************************************************)

\* C2: a job whose status endpoint answers every poll with a non-terminal
\* status is polled exactly max_retries times, never more, and the poller then
\* ends timed out with no results: status "timeout" and a null result in the
\* API poller, the empty list in the two batch pollers.
C2_ExactlyMaxRetriesPolls ==
    /\ onlyPending => polls <= max_retries
    /\ (pollPc = "done" /\ onlyPending) =>
          /\ polls = max_retries
          /\ IF variant = "api"
             THEN ret.status = "timeout" /\ ret.result = None
             ELSE ret = PyList(<<>>)

\* the concurrent poller has ended after a run of non-terminal answers only
C2_Witness ==
    /\ pollPc = "done"
    /\ onlyPending
    /\ variant = "batch"
    /\ polls = max_retries_per_batch

\* C3: a status poll answered with HTTP 4xx ends the poller as failed at
\* once: that poll is the last one, no wait follows it, whatever retry budget
\* is left.
C3_ClientErrorEndsPoller ==
    (lastResp.kind = "error" /\ lastResp.code >= 400 /\ lastResp.code <= 499) =>
        /\ pollPc = "done"
        /\ polls = lastAttempt + 1
        /\ sleeps = lastAttempt
        /\ IF variant = "api"
           THEN ret.status = "failed" /\ ret.result = None
           ELSE ret = PyList(<<>>)

\* a 4xx answer (code 499) arrived while retry budget was left, after at
\* least one earlier poll
C3_Witness ==
    /\ lastResp = ErrResp(499)
    /\ lastAttempt >= 1
    /\ lastAttempt < max_retries - 1
    /\ pollPc = "done"

\* C4: a status poll that fails with a transport error other than HTTP 4xx
\* while retry budget remains does not end the poller: it waits and polls
\* again, in the concurrent poller as in the synchronous ones.
C4_TransportErrorIsRetried ==
    ( /\ lastResp.kind = "error"
      /\ ~(lastResp.code >= 400 /\ lastResp.code <= 499)
      /\ lastAttempt < max_retries - 1 ) =>
        pollPc \in {"sleep", "poll"}

\* the last poll was answered with a JSON body whose status field is neither
\* "completed" nor "failed": in progress, queued, or no status at all
LastStatusOther ==
    lastResp.kind = "json" /\ lastResp.status \notin {"completed", "failed"}

\* C17: a poll response counts as Completed only when its status field is
\* "completed" and as Failed only when it is "failed"; any other status,
\* an absent or unrecognised one included, leaves the job pending: the
\* poller goes on to wait and poll again while retry budget remains, and when
\* it ends on such a response it ends timed out, never completed or failed.
C17_OnlyTerminalStatusEndsPoller ==
    /\ (pollPc = "done" /\ lastResp.kind = "json" /\ variant = "api") =>
          /\ (ret.status = "completed") <=> (lastResp.status = "completed")
          /\ (ret.status = "failed") <=> (lastResp.status = "failed")
    /\ (pollPc = "done" /\ lastResp.kind = "json" /\ variant # "api") =>
          /\ (ret # PyList(<<>>)) => (lastResp.status = "completed")
          /\ (polls < max_retries) => (lastResp.status \in {"completed", "failed"})
    /\ LastStatusOther =>
          /\ (lastAttempt < max_retries - 1) => (pollPc \in {"sleep", "poll"})
          /\ (pollPc = "done") => (polls = max_retries /\ ret = timeout_ret(variant))

\* the concurrent poller has polled again after a body without a status
\* field, with retry budget left
C17_Witness ==
    /\ variant = "batch"
    /\ lastResp = JsonResp("absent", FALSE, <<>>)
    /\ lastAttempt >= 1
    /\ attempt = lastAttempt + 1
    /\ pollPc = "poll"

\* the poller has ended with its retry budget spent and no terminal answer
\* to its last poll
TimedOut ==
    /\ pollPc = "done"
    /\ polls = max_retries
    /\ \/ LastStatusOther
       \/ lastResp.kind = "error" /\ ~(lastResp.code >= 400 /\ lastResp.code <= 499)

\* the poller has ended on a "failed" status or on an HTTP 4xx
Failed ==
    /\ pollPc = "done"
    /\ \/ lastResp.kind = "json" /\ lastResp.status = "failed"
       \/ lastResp.kind = "error" /\ lastResp.code >= 400 /\ lastResp.code <= 499

\* C18: a job that ends timed out contributes zero results, as a failed job
\* does, and the API poller reports it apart from a failure: status "timeout",
\* not "failed", with a null result, which /scrape-and-wait answers with
\* success = false and no data.
C18_TimeoutDistinctFromFailed ==
    /\ TimedOut =>
          IF variant = "api"
          THEN /\ ret.status = "timeout"
               /\ ret.status # "failed"
               /\ ret.result = None
               /\ answer # None => (answer.success = FALSE /\ answer.data = None)
          ELSE ret = PyList(<<>>)
    /\ Failed =>
          IF variant = "api"
          THEN /\ ret.status = "failed"
               /\ ret.result = None
               /\ answer # None => (answer.success = FALSE /\ answer.data = None)
          ELSE ret = PyList(<<>>)

\* /scrape-and-wait has answered a job that stayed in progress through all
\* polls of the API poller
C18_Witness ==
    /\ variant = "api"
    /\ TimedOut
    /\ onlyPending
    /\ polls = api_max_retries
    /\ answer # None
    /\ answer.success = FALSE

(***************************************************************************)
(* Claims about the account selector and the dispatcher (SpecApi)          *)
(***************************************************************************)

\* How the claims read a row of the store.  The verification cell counts as
\* "verified" up to case and surrounding blanks; a usage cell that holds no
\* integer counts as usage 0; a row cut short of a required column has no
\* usable tokens.
IsVerified(row) == row.status \in {"verified", " Verified ", "VERIFIED"}

StoredUsage(row) == IF row.daily_use.k = "int" THEN row.daily_use.v ELSE 0

HasBothTokens(row) ==
    /\ row.complete
    /\ row.cookies.fmt \in {"dict", "kv"}
    /\ row.cookies.js = "val"
    /\ row.cookies.li = "val"

Eligible(row) ==
    IsVerified(row) /\ StoredUsage(row) < daily_limit /\ HasBothTokens(row)

\* the last request reached the selector
SelectorCalled == last.http = 429 \/ last.account # None \/ last.raised

\* the row of the store the last request's account was read from
SelectedRow == prevSheet[last.account.row_index - 1]

\* C6: read_available_account returns the first row in sheet order that is
\* verified, below the daily limit and holds both tokens; it returns none
\* exactly when no row satisfies the three conditions, which the caller
\* answers with HTTP 429.
C6_FirstEligibleOrNone ==
    SelectorCalled =>
        IF \E k \in 1..Len(prevSheet) : Eligible(prevSheet[k])
        THEN /\ last.account # None
             /\ Eligible(SelectedRow)
             /\ \A k \in 1..(last.account.row_index - 2) : ~Eligible(prevSheet[k])
        ELSE last.account = None /\ last.http = 429

\* C7: whatever the store holds, an account the selector returns has a
\* stored daily usage strictly below the daily limit and both tokens present
\* and non-empty.
C7_ReturnedAccountUsable ==
    last.account # None =>
        /\ StoredUsage(SelectedRow) < daily_limit
        /\ HasBothTokens(SelectedRow)
        /\ last.account.daily_use < daily_limit
        /\ last.account.JSESSIONID = "val"
        /\ last.account.li_at = "val"

\* an account one use below the limit was returned from behind a row that
\* holds only one of the two tokens
C7_Witness ==
    /\ last.account # None
    /\ last.account.row_index = 3
    /\ StoredUsage(SelectedRow) = daily_limit - 1
    /\ prevSheet[1].cookies = Cookie("kv", "val", "empty")

\* C8: when start_scraping fails (transport error, non-2xx answer, or a 2xx
\* answer without batch_id) the stored usage of the account used is unchanged.
C8_FailedDispatchKeepsUsage ==
    (last.account # None /\ last.batch_id = "None") => sheet = prevSheet

\* C9: when start_scraping returns a job handle, the stored usage of the
\* account used has been raised by exactly 1 and written to the store, and
\* no other row has changed.
C9_SuccessfulDispatchCountsOnce ==
    (last.account # None /\ last.batch_id # "None") =>
        /\ StoredUsage(sheet[last.account.row_index - 1]) = StoredUsage(SelectedRow) + 1
        /\ \A k \in 1..Len(sheet) :
              k # last.account.row_index - 1 => sheet[k] = prevSheet[k]

\* C10: in a run of select-then-dispatch steps, an account whose usage an
\* increment has brought to the daily limit is returned by no later
\* selection; the selection returns the first row in sheet order that is
\* still eligible.
C10_ExhaustedAccountSkipped ==
    [][ (nreq' = nreq + 1 /\ last'.account # None) =>
            /\ (last'.account.row_index - 1) \notin exhausted
            /\ Eligible(sheet[last'.account.row_index - 1])
            /\ \A k \in 1..(last'.account.row_index - 2) : ~Eligible(sheet[k]) ]_vars

\* the scenario: two verified rows with usage 249 and 10; the first
\* selection took the 249 row, whose increment reached 250, and the second
\* selection returned the 10 row
C10_Witness ==
    /\ nreq = 2
    /\ Len(sheet) = 2
    /\ 1 \in exhausted
    /\ prevSheet[1].daily_use = IntCell(daily_limit)
    /\ IsVerified(prevSheet[1])
    /\ last.account # None
    /\ last.account.row_index = 3
    /\ last.account.daily_use = 10

\* a credential row that cannot be used: cut short of a required column, its
\* cookies cell blank, a blob neither parser reads, or one of the two tokens
\* missing or empty
Malformed(row) == ~HasBothTokens(row)

\* C16: a malformed or incomplete credential row is skipped and never
\* fatal: once the rows are read the selection does not raise, and malformed
\* rows ahead of an eligible row do not keep that row from being selected.
C16_MalformedRowSkipped ==
    (SelectorCalled /\ last.read = "ok") =>
        /\ ~last.raised
        /\ \A k \in 1..Len(prevSheet) :
              ( /\ Eligible(prevSheet[k])
                /\ \A j \in 1..(k - 1) : Malformed(prevSheet[j]) ) =>
                  /\ last.account # None
                  /\ last.account.row_index = k + 1
(***************************************************************************)
(* Claims about the concurrent batch run (SpecConc)                        *)
(***************************************************************************)

\* the pipelines past slot acquisition and not yet finished
InFlight ==
    {i \in Pipelines : pipe[i].pc \in {"delay", "posting", "polling", "sleeping"}}

\* C1: with N pipelines and a concurrency cap C < N, at most C pipelines are
\* at any time past slot acquisition and not yet finished (in their start
\* delay, dispatch or poll phase); every other pipeline waits for a slot or
\* has finished.
C1_AtMostCapInFlight ==
    /\ Cardinality(InFlight) <= CONFIG.max_concurrent_batches
    /\ \A i \in Pipelines \ InFlight : pipe[i].pc \in {"waiting", "done"}

\* more pipelines than slots: the cap is reached while one pipeline still
\* waits and another has already finished and handed its slot on
C1_Witness ==
    /\ CONFIG.max_concurrent_batches < num_to_process
    /\ Cardinality(InFlight) = CONFIG.max_concurrent_batches
    /\ \E i \in Pipelines : pipe[i].pc = "waiting"
    /\ \E i \in Pipelines : pipe[i].pc = "done"
    /\ \E i \in Pipelines : pipe[i].pc = "polling"

\* the pipelines that returned a list with at least one result
Succeeded == {i \in Pipelines : pipe[i].result.kind = "list" /\ pipe[i].result.items # <<>>}

\* the pipelines that raised
Raising == {i \in Pipelines : pipe[i].result = PyExc}

\* the lists the pipelines k, k+1, ... returned, one after the other
RECURSIVE ListsFrom(_)
ListsFrom(k) ==
    IF k > num_to_process THEN <<>>
    ELSE (IF k \in Succeeded THEN pipe[k].result.items ELSE <<>>) \o ListsFrom(k + 1)

RECURSIVE LensFrom(_)
LensFrom(k) ==
    IF k > num_to_process THEN 0
    ELSE (IF k \in Succeeded THEN Len(pipe[k].result.items) ELSE 0) + LensFrom(k + 1)

\* C11: an exception raised inside one pipeline neither aborts the run nor
\* touches a sibling: the step in which a pipeline raises leaves every other
\* pipeline as it was, the run still returns, the raising pipeline counts as
\* a batch without results, and the lists of the other pipelines reach the
\* aggregate unchanged.
C11_ExceptionIsIsolated ==
    /\ [](gatherPc # "raised")
    /\ []((gatherPc = "returned" /\ Raising # {}) =>
            /\ all_results = ListsFrom(1)
            /\ successful_batches = Cardinality(Succeeded)
            /\ Raising \cap Succeeded = {}
            /\ \A j \in Pipelines \ Raising : pipe[j].result.kind = "list")
    /\ [][\A i \in Pipelines :
            (pipe'[i].result = PyExc /\ pipe[i].result # PyExc) =>
                \A j \in Pipelines \ {i} : pipe'[j] = pipe[j]]_vars

\* the run has returned: the first pipeline raised, a later one delivered
\* results, and these are the aggregate
C11_Witness ==
    /\ gatherPc = "returned"
    /\ 1 \in Raising
    /\ 2 \in Succeeded
    /\ 3 \in Pipelines
    /\ all_results # <<>>
    /\ all_results = pipe[2].result.items \o (IF 3 \in Succeeded THEN pipe[3].result.items ELSE <<>>)

\* C12: the aggregate is the concatenation of the non-empty per-batch lists
\* in batch-index order, whatever the order in which the pipelines finished;
\* its length is the sum of their lengths; it is empty when every batch
\* failed.
C12_AggregateInBatchOrder ==
    gatherPc = "returned" =>
        /\ all_results = ListsFrom(1)
        /\ Len(all_results) = LensFrom(1)
        /\ (Succeeded = {} => all_results = <<>> /\ successful_batches = 0)

\* pipeline 2 finished ahead of pipeline 1, both delivered different results,
\* and the aggregate holds those of pipeline 1 first
C12_Witness ==
    /\ gatherPc = "returned"
    /\ overtaken
    /\ {1, 2} \subseteq Succeeded
    /\ Len(pipe[1].result.items) = 2
    /\ pipe[2].result.items # SubSeq(pipe[1].result.items, 1, Len(pipe[2].result.items))
    /\ SubSeq(all_results, 1, 2) = pipe[1].result.items

\* C13: every run, runs with failed, timed out and raising pipelines
\* included, ends with a summary: its successful-batch count is the number
\* of pipelines that returned a non-empty list, its total the number of
\* pipelines started, its result count the length of the aggregate.
C13_SummaryAlwaysProduced ==
    /\ <>(summary # None)
    /\ [](summary # None =>
            /\ summary.successful_batches = Cardinality(Succeeded)
            /\ summary.num_to_process = Len(pipe)
            /\ summary.total_results = Len(all_results)
            /\ summary.total_results = LensFrom(1))

\* a summary of a run of three pipelines: one raised, one delivered results,
\* one returned the empty list
C13_Witness ==
    /\ summary # None
    /\ summary.num_to_process = 3
    /\ summary.successful_batches = 1
    /\ summary.total_results = 2
    /\ Raising # {}
    /\ \E i \in Pipelines : pipe[i].result = PyList(<<>>)

\* C14: aggregation is a barrier: while gather is pending nothing has been
\* merged, and once the aggregate exists every started pipeline has reached
\* a terminal state (it returned a list or raised).
C14_AggregationIsBarrier ==
    /\ gatherPc = "gather" =>
            all_results = <<>> /\ successful_batches = 0 /\ summary = None
    /\ gatherPc # "gather" =>
            \A i \in Pipelines :
                pipe[i].pc = "done" /\ pipe[i].result.kind \in {"list", "exception"}

\* one pipeline has delivered results while another is still polling, and
\* the aggregate is still empty
C14_Witness ==
    /\ gatherPc = "gather"
    /\ Succeeded # {}
    /\ \E i \in Pipelines : pipe[i].pc = "sleeping"
    /\ all_results = <<>>

(***************************************************************************)
(* Claims about the batch script (SpecRun)                                 *)
(***************************************************************************)

\* C15: batch i of the splitter is paired with account i of the pool for
\* its whole lifetime: a pipeline holds, and dispatches with, exactly the
\* i-th account and the i-th batch, no account record is held or dispatched
\* by two pipelines, and the batches are the consecutive slices of
\* batch_size profile ids.
C15_BatchPairedWithAccount ==
    /\ \A i \in Pipelines :
          /\ pipe[i].account = accounts[i]
          /\ pipe[i].profile_ids = batches[i]
          /\ pipe[i].profile_ids =
                SubSeq(profile_ids, (i - 1) * batch_size + 1,
                       Min(i * batch_size, Len(profile_ids)))
    /\ \A i, j \in Pipelines : i # j => pipe[i].account.row # pipe[j].account.row
    /\ \A d \in dispatched :
          /\ d.batch_number \in Pipelines
          /\ d.account = accounts[d.batch_number]
          /\ d.profile_ids = batches[d.batch_number]
    /\ \A d1, d2 \in dispatched :
          d1.account.row = d2.account.row => d1 = d2

\* the scenario: 3 accounts and 120 profile ids give batches of 50, 50 and
\* 20, and all three have been dispatched
C15_Witness ==
    /\ Len(accounts) = 3
    /\ Len(profile_ids) = 120
    /\ [k \in 1..Len(batches) |-> Len(batches[k])] = <<50, 50, 20>>
    /\ Cardinality(dispatched) = 3
    /\ \A i \in 1..3 : pipe[i].pc = "done"

\* the sheet row, as the script read it, that a dispatched account came from
SourceRow(d) == accounts_sheet[d.account.row - 1]

\* C19: every account the batch run dispatches with was, when it was read,
\* verified and had a stored daily usage below the daily limit.
C19_BatchAccountsEligible ==
    \A d \in dispatched :
        /\ IsVerified(SourceRow(d))
        /\ StoredUsage(SourceRow(d)) < daily_limit

(***************************************************************************)
(* Claims about the termination of the concurrent batch run (FairConc)     *)
(***************************************************************************)

\* C20: provided every HTTP call and every sleep returns, every started
\* pipeline reaches a terminal state by itself: a job that stays in progress
\* is given up once the retry budget is spent, its slot is handed on, every
\* waiting pipeline is admitted in turn, and the run ends with all pipelines
\* finished and all slots free.
C20_RunTerminates ==
    <>[]( /\ gatherPc = "returned"
          /\ \A i \in Pipelines : pipe[i].pc = "done"
          /\ semaphore = CONFIG.max_concurrent_batches )

\* more pipelines than slots: a pipeline whose job has stayed in progress
\* sleeps after its last poll, holding the only slot another pipeline waits
\* for
C20_Witness ==
    /\ CONFIG.max_concurrent_batches = 1
    /\ num_to_process >= 2
    /\ CONFIG.max_retries_per_batch >= 2
    /\ pipe[1].pc = "sleeping"
    /\ pipe[1].attempt = CONFIG.max_retries_per_batch - 1
    /\ pipe[2].pc = "waiting"
    /\ gatherPc = "gather"

(***************************************************************************)
(* Claims about the admission gate and the order of a pipeline's steps     *)
(* (SpecConc)                                                              *)
(***************************************************************************)

\* the step a pipeline holding a slot takes next
NextStepOf(i) == DelayDone(i) \/ PostDone(i) \/ PollDone(i) \/ WakeUp(i)

\* C21: the admission gate conserves slots: free slots + pipelines holding a
\* slot = max_concurrent_batches in every state; a pipeline that still waits
\* for its slot has done no work; a finished pipeline holds no slot whatever
\* way it ended, so all slots are free once the run has ended; and nothing but
\* the gate holds a pipeline back: a pipeline holding a slot can always take
\* its next step, and a free slot is granted when a pipeline waits for one.
C21_SlotsConserved ==
    /\ semaphore + Cardinality(InFlight) = CONFIG.max_concurrent_batches
    /\ semaphore >= 0
    /\ \A i \in Pipelines :
         pipe[i].pc = "waiting" =>
            /\ pipe[i].result = None
            /\ pipe[i].attempt = 0
            /\ \A d \in dispatched : d.batch_number # i
    /\ gatherPc = "returned" => semaphore = CONFIG.max_concurrent_batches
    /\ \A i \in InFlight : ENABLED NextStepOf(i)
    /\ (semaphore_free(semaphore) /\ \E i \in Pipelines : pipe[i].pc = "waiting")
          => ENABLED (\E i \in Pipelines : Acquire(i))

\* the run has ended with all slots free after pipelines that left on
\* different paths: one by an exception, one with the empty list, one with
\* results
C21_Witness ==
    /\ gatherPc = "returned"
    /\ CONFIG.max_concurrent_batches < num_to_process
    /\ semaphore = CONFIG.max_concurrent_batches
    /\ \E i \in Pipelines : pipe[i].result = PyExc
    /\ \E i \in Pipelines : pipe[i].result = PyList(<<>>)
    /\ \E i \in Pipelines : is_nonempty_list(pipe[i].result)

\* the positions a pipeline may move to from each position
PipelineOrder(pc) ==
    CASE pc = "waiting"  -> {"delay"}
      [] pc = "delay"    -> {"posting", "done"}
      [] pc = "posting"  -> {"polling", "done"}
      [] pc = "polling"  -> {"sleeping", "done"}
      [] pc = "sleeping" -> {"polling", "done"}
      [] OTHER           -> {}

HasDispatched(i) == \E d \in dispatched : d.batch_number = i

\* C22: within each pipeline the events come in the order slot acquired, start
\* delay finished, dispatch request sent, status polls; a dispatch request is
\* sent only by a pipeline that holds a slot and ends its start delay at that
\* very step, polls are made only after the dispatch, and a pipeline in its
\* start delay holds a slot, so it counts against the cap.
C22_PipelineEventOrder ==
    /\ []( /\ \A i \in Pipelines :
                /\ pipe[i].pc \in {"waiting", "delay"} => ~HasDispatched(i)
                /\ pipe[i].pc \in {"posting", "polling", "sleeping"} => HasDispatched(i)
                /\ pipe[i].attempt > 0 => pipe[i].pc \in {"polling", "sleeping"}
           /\ Cardinality({i \in Pipelines : pipe[i].pc = "delay"}) + semaphore
                 <= CONFIG.max_concurrent_batches )
    /\ [][ /\ \A i \in Pipelines :
                pipe'[i].pc # pipe[i].pc => pipe'[i].pc \in PipelineOrder(pipe[i].pc)
           /\ \A d \in dispatched' \ dispatched :
                /\ pipe[d.batch_number].pc = "delay"
                /\ pipe'[d.batch_number].pc = "posting"
                /\ semaphore' = semaphore
           /\ \A i \in Pipelines :
                (pipe[i].pc = "delay" /\ pipe'[i].pc = "posting") => ~HasDispatched(i)
         ]_vars

\* the only slot is held by a pipeline still in its start delay, which has sent
\* nothing yet, while the pipeline before it has polled and finished and the
\* next one waits
C22_Witness ==
    /\ CONFIG.max_concurrent_batches = 1
    /\ num_to_process = 3
    /\ pipe[1].pc = "done" /\ is_nonempty_list(pipe[1].result)
    /\ pipe[2].pc = "delay"
    /\ pipe[3].pc = "waiting"
    /\ semaphore = 0
    /\ dispatched = {[batch_number |-> 1, account |-> pipe[1].account,
                      profile_ids |-> pipe[1].profile_ids]}

(***************************************************************************)
(* Claims about the sequential batch script (SpecSeq)                      *)
(***************************************************************************)

\* the last dispatch request of the loop has brought no batch id
DispatchFailed == lastPost \notin {"none", "ok_batch_id"}

\* C23: when the dispatch of a batch fails (no batch id: an exception, a
\* non-2xx answer, a 2xx answer without batch_id), no status poll is made for
\* that batch, it adds nothing to the results, and the run goes on with the
\* remaining batches.
C23_DispatchFailureConfined ==
    DispatchFailed =>
        /\ seqPc \in {"loop", "finished"}
        /\ pollPc = "idle"
        /\ polls = 0
        /\ \E d \in dispatched : d.batch_number = loop_i - 1
        /\ Len(all_results) <= 2 * (loop_i - 2)

(***************************************************************************)
(* Claims about the waits of the completion pollers (SpecPoll)             *)
(***************************************************************************)

\* the answer of a poll leaves the job undecided: still in progress, or an
\* error that is no client error
NonTerminal(resp) ==
    \/ status_of(resp) = "pending"
    \/ resp.kind = "error" /\ ~is_client_error(resp)

\* C24: in the API poller no wait follows the last poll attempt: whether the
\* job stays in progress or the polls keep failing with non-4xx errors, at
\* most max_retries - 1 waits are taken, each of wait_interval, and the
\* timeout outcome is returned directly after the max_retries-th attempt.
C24_NoWaitAfterLastAttempt ==
    variant = "api" =>
        /\ sleeps <= max_retries - 1
        /\ sleeps <= attempt
        /\ pollPc = "sleep" =>
              /\ attempt < max_retries - 1
              /\ wait_time = api_wait_interval
        /\ (pollPc = "done" /\ NonTerminal(lastResp)) =>
              /\ ret = ApiTimeout
              /\ polls = max_retries
              /\ lastAttempt = max_retries - 1
              /\ sleeps = max_retries - 1

\* the API poller has timed out on a server error at its last attempt, after
\* answers that were not all of one kind
C24_Witness ==
    /\ variant = "api"
    /\ pollPc = "done"
    /\ ret = ApiTimeout
    /\ lastResp = ErrResp(503)
    /\ ~onlyPending
    /\ sleeps = api_max_retries - 1

UpstreamRecords(payload) ==
    IF payload.hasResult THEN payload.result
    ELSE IF payload.hasData THEN payload.data
    ELSE <<>>

\* the defensive unwrapping: the value under the nested key when there is
\* one, the payload itself otherwise
Unwrapped(payload) ==
    IF payload.hasResult \/ payload.hasData
    THEN PyList(UpstreamRecords(payload))
    ELSE payload

\* C26: on a Completed poll the caller unwraps the upstream payload
\* defensively: the extracted result is the value under the payload's "data"
\* or "result" key when there is such a key and the payload itself otherwise,
\* and the poller yields as many result records as the upstream result holds,
\* never a record made from the status envelope.
C26_CompletedPayloadUnwrapped ==
    (pollPc = "done" /\ status_of(lastResp) = "completed") =>
        /\ variant \in {"batch", "index"} =>
              Len(ret.items) = Len(UpstreamRecords(lastResp))
        /\ (variant = "api" /\ answer # None) =>
              /\ answer.success
              /\ answer.data = Unwrapped(lastResp)

(***************************************************************************)
(* Claims about the read-only endpoints of the HTTP facade (SpecInfo)      *)
(***************************************************************************)

\* C27: POST /extract-profile-id answers HTTP 400 ("Could not extract profile
\* ID from the provided URL") whenever no profile id can be extracted from a
\* valid LinkedIn URL, such as one without an /in/ segment; HTTP 500 is kept
\* for unexpected internal errors, of which this handler has none here.
C27_NoProfileIdAnswers400 ==
    (reply # None /\ reply.endpoint = "/extract-profile-id") =>
        /\ extract_profile_id_from_url(reply.request) = "None" =>
              /\ reply.response.status_code = 400
              /\ reply.response.detail =
                    "Could not extract profile ID from the provided URL"
        /\ reply.response.status_code # 500

\* the latest answer is a listing of GET /accounts/status
StatusListed ==
    /\ reply # None
    /\ reply.endpoint = "/accounts/status"
    /\ reply.response.kind = "AccountsStatus"

\* C30: GET /accounts/status and the account selector agree on availability
\* for the same store contents: every row listed with available = true is a
\* row read_available_account is able to select, so available_accounts > 0
\* means that the selector returns an account and /scrape does not answer 429.
C30_StatusAgreesWithSelector ==
    StatusListed =>
        /\ \A k \in DOMAIN reply.response.accounts :
              reply.response.accounts[k].available =>
                 row_selected(sheet[reply.response.accounts[k].row - 1])
        /\ reply.response.available_accounts > 0 =>
              read_available_account(sheet, "ok") \notin {None, PyExc}

(***************************************************************************)
(* Claims about the HTTP facade under several requests (SpecServe)         *)
(***************************************************************************)

\* C29: the select -> dispatch -> usage-write sequences of the /scrape and
\* /scrape-and-wait requests of one server process are never interleaved, so
\* no usage increment is lost: a row on which n dispatches have had their
\* usage write succeed stores its initial usage + n, and no two of these
\* dispatches started from the same usage value read for that row, whatever
\* number of /scrape-and-wait requests is suspended in the meantime.
C29_NoLostUsageIncrement ==
    /\ \A k \in 1..Len(sheet) :
          StoredUsage(sheet[k]) = StoredUsage(sheet0[k]) + usage_writes[k]
    /\ ~repeated_read
    /\ \A k \in 1..Len(sheet) :
          Cardinality({p \in read_values : p[1] = k + 1}) = usage_writes[k]

\* two requests have dispatched on the same row one after the other, the
\* second while the first, a /scrape-and-wait request, was still suspended
C29_Witness ==
    /\ awaiting >= 1
    /\ nreq = 2
    /\ \E k \in 1..Len(sheet) :
          /\ usage_writes[k] = 2
          /\ StoredUsage(sheet[k]) = StoredUsage(sheet0[k]) + 2
    /\ last.update = "ok"

(***************************************************************************)
(* Claims about the number of pipelines (SpecConc)                         *)
(***************************************************************************)

\* the profile ids of the batches that have no account
LeftOver ==
    UNION {{batches[k][j] : j \in 1..Len(batches[k])} :
              k \in (Len(accounts) + 1)..Len(batches)}

\* C28: process_all_batches_concurrent starts exactly min(number of accounts,
\* number of batches) pipelines; with more batches than accounts the batches
\* from index number-of-accounts on are never dispatched, none of their
\* profile ids is sent in any request, and the summary's total does not
\* count them.
C28_PipelinesAreMinOfAccountsAndBatches ==
    /\ DOMAIN pipe = 1..Min(Len(accounts), Len(batches))
    /\ \A d \in dispatched :
          /\ d.batch_number <= Len(accounts)
          /\ d.batch_number <= Len(batches)
          /\ d.profile_ids = batches[d.batch_number]
          /\ \A j \in 1..Len(d.profile_ids) : d.profile_ids[j] \notin LeftOver
    /\ \A i \in DOMAIN pipe : pipe[i].profile_ids = batches[i]
    /\ summary # None =>
          /\ summary.num_to_process = Min(Len(accounts), Len(batches))
          /\ summary.successful_batches <= Min(Len(accounts), Len(batches))
    /\ gatherPc = "returned" => summary # None

\* three batches and one account: the run has ended after one dispatch, with
\* a total of one batch in the summary
C28_Witness ==
    /\ Len(accounts) = 1
    /\ Len(batches) = 3
    /\ gatherPc = "returned"
    /\ Cardinality(dispatched) = 1
    /\ summary.num_to_process = 1
    /\ LeftOver = {2, 3}
====
